---- MODULE Spec2Model ----
(***************************************************************************)
(* The feed-maintenance core of podcast-processor: the read-through feed   *)
(* cache (getIndexXML), the processing pass (processFiles / processFile)   *)
(* and the string surgery that merges new <item> blocks into index.xml.    *)
(*                                                                         *)
(* The repository carries three Go variants of the same core:              *)
(*   "prefix"   src/main.go                  lists files/ and appends      *)
(*   "flatroot" src/process_podcast.pl:115   lists the root, promotes      *)
(*   "event"    src/process_podcast.pl:438   one object per trigger        *)
(* Text is a sequence of tokens: a token is one character of an object     *)
(* name, one newline, one closing tag, or one literal piece of the item    *)
(* template.                                                               *)
(***************************************************************************)
EXTENDS Integers, Sequences, FiniteSets, TLC

VARIABLES
    config,        \* which variant of the core is deployed
    objects,       \* the audio bucket: the set of objects (name, size) it holds
    indexObj,      \* the index object: <<>> when absent, <<document>> when present
    cachedContent, \* main.go:25
    cacheTime,     \* main.go:27
    rheld,         \* goroutines holding cacheMutex for reading
    wheld,         \* goroutines holding cacheMutex for writing
    now,           \* the wall clock, in seconds
    nticks,        \* clock advances so far
    npasses,       \* processing passes started so far
    pc,            \* per goroutine: where its handler stands
    req,           \* per goroutine: "feed" or "process", the handler it runs
    iter,          \* per pass: objects the listing has still to return
    cur,           \* per pass: the object being promoted, <<>> when none
    items,         \* per pass: items rendered so far
    content,       \* per getIndexXML call: the bytes read from the store
    existing,      \* per pass: existingContent
    readErr,       \* per pass: why getIndexXML returned an error, "" when it did not
    out,           \* what the step just taken returned or answered, if anything
    held,          \* history: documents the store held during the current call
    mark,          \* history: the call is the first one begun after a pass returned
    fetched,       \* history: the call performed a store read
    passDone,      \* history: a pass returned success and no call began since
    filled,        \* history: the cache was filled and not invalidated since
    mvariant,      \* merge study: which variant's merge code is applied
    mexisting,     \* merge study: existingContent handed to the merge step
    mitems,        \* merge study: items rendered for the merge step
    mout,          \* merge study: newContent produced by the merge step
    mcount,        \* merge study: number of merges applied so far
    tname,         \* title study: the object name handed to the derivation
    ttitle,        \* title study: the title derived from it
    tdone,         \* title study: the derivation has run
    bucketName,    \* main.go:20, GCS_BUCKET as the process found it: "" when unset
    filesBucketName, \* process_podcast.pl:462, GCS_FILES_BUCKET, event variant only
    phase          \* the process: "init" before init() ran, "serving", "exited"

storevars == <<config, objects, indexObj>>
cachevars == <<cachedContent, cacheTime, rheld, wheld>>
clockvars == <<now, nticks>>
passvars == <<iter, cur, items, existing, readErr>>
histvars == <<held, mark, fetched, passDone, filled>>
sysvars == <<storevars, cachevars, clockvars, npasses, pc, req, passvars, content,
             out, histvars>>
mergevars == <<mvariant, mexisting, mitems, mout, mcount>>

titlevars == <<tname, ttitle, tdone>>

bootvars == <<bucketName, filesBucketName, phase>>

vars == <<sysvars, mergevars, titlevars, bootvars>>

----------------------------------------------------------------------------
(* Bounds of the model *)

MaxChunks == 3        \* pieces an initial existing document is built from
MaxNewItems == 2      \* items rendered by one merge
MaxMerges == 2        \* merges applied one after the other
NProcs == 2           \* request goroutines running at the same time
MaxPasses == 2        \* processing passes started in one run
MaxTicks == 1         \* clock advances in one run
MaxStem == 3          \* characters of a drawn object name before its extension

Procs == 1..NProcs

----------------------------------------------------------------------------
(* Text helpers *)

NL == "\n"

HasSuffix(s, suf) ==
    /\ Len(suf) <= Len(s)
    /\ SubSeq(s, Len(s) - Len(suf) + 1, Len(s)) = suf

HasPrefix(s, pre) ==
    /\ Len(pre) <= Len(s)
    /\ SubSeq(s, 1, Len(pre)) = pre

\* strings.TrimSuffix: s without the suffix when it ends with it, else s
TrimSuffix(s, suf) ==
    IF HasSuffix(s, suf) THEN SubSeq(s, 1, Len(s) - Len(suf)) ELSE s

UpperChars == <<"A","B","C","D","E","F","G","H","I","J","K","L","M",
                "N","O","P","Q","R","S","T","U","V","W","X","Y","Z">>
LowerChars == <<"a","b","c","d","e","f","g","h","i","j","k","l","m",
                "n","o","p","q","r","s","t","u","v","w","x","y","z">>

\* strings.ToLower on one byte, then on a string
LowerChar(c) ==
    IF \E i \in 1..26 : UpperChars[i] = c
    THEN LowerChars[CHOOSE i \in 1..26 : UpperChars[i] = c]
    ELSE c

ToLower(s) == [i \in 1..Len(s) |-> LowerChar(s[i])]

Digits == {"0","1","2","3","4","5","6","7","8","9"}

\* unicode.IsSpace on the bytes a name can hold
IsSpace(c) == c \in {" ", "\t", "\n", "\r"}

----------------------------------------------------------------------------
(* Metadata derivation *)

ExtMp3 == <<".", "m", "p", "3">>
ExtM4a == <<".", "m", "4", "a">>

\* mutant: the extension is compared without lowercasing the name
isAudio_CaseSensitive(name) ==
    \/ HasSuffix(name, ExtMp3)
    \/ HasSuffix(name, ExtM4a)

\* the selection rule on an object name
isAudio(name) ==
    \/ HasSuffix(ToLower(name), ExtMp3)
    \/ HasSuffix(ToLower(name), ExtM4a)

\* index of the last occurrence of c in s, 0 when there is none
LastIndex(s, c) ==
    IF \E i \in 1..Len(s) : s[i] = c
    THEN CHOOSE i \in 1..Len(s) : s[i] = c /\ \A j \in (i+1)..Len(s) : s[j] # c
    ELSE 0

\* a piece of a name that holds a slash: the slash itself, or the text of a
\* closing tag, which the model keeps in one piece
HasSlash(c) == c \in {"/", "</rss>", "</channel>"}

\* what such a piece holds after its slash
AfterSlash(c) ==
    IF c = "</rss>" THEN <<"rss>">>
    ELSE IF c = "</channel>" THEN <<"channel>">>
    ELSE <<>>

\* index of the last piece of s that holds a slash, 0 when there is none
LastSlash(s) ==
    IF \E i \in 1..Len(s) : HasSlash(s[i])
    THEN CHOOSE i \in 1..Len(s) :
             HasSlash(s[i]) /\ \A j \in (i+1)..Len(s) : ~HasSlash(s[j])
    ELSE 0

\* filepath.Base for a name that does not end in a slash: what follows the
\* last slash of the name
Base(name) ==
    LET i == LastSlash(name)
    IN  (IF i = 0 THEN <<>> ELSE AfterSlash(name[i])) \o SubSeq(name, i + 1, Len(name))

\* filepath.Ext: from the last dot of the final path element, "" without one
Ext(name) ==
    LET b == Base(name)
        d == LastIndex(b, ".")
    IN  IF d = 0 THEN <<>> ELSE SubSeq(b, d, Len(b))

\* mutant: only the underscores are replaced
ReplaceSeparators_UnderscoresOnly(s) ==
    [i \in 1..Len(s) |-> IF s[i] = "_" THEN " " ELSE s[i]]

\* the replacement loop of sanitizeTitle: byte by byte, length preserved
ReplaceSeparators(s) ==
    [i \in 1..Len(s) |-> IF s[i] = "_" \/ s[i] \in Digits THEN " " ELSE s[i]]

RECURSIVE TrimLeft(_)
TrimLeft(s) ==
    IF s # <<>> /\ IsSpace(Head(s)) THEN TrimLeft(Tail(s)) ELSE s

RECURSIVE TrimRight(_)
TrimRight(s) ==
    IF s # <<>> /\ IsSpace(s[Len(s)]) THEN TrimRight(SubSeq(s, 1, Len(s) - 1)) ELSE s

\* strings.TrimSpace: leading and trailing white space removed
TrimSpace(s) == TrimLeft(TrimRight(s))

sanitizeTitle(s) == TrimSpace(ReplaceSeparators(s))

\* title := TrimSuffix(Base(name), Ext(name)); title = sanitizeTitle(title)
titleFromName(name) == sanitizeTitle(TrimSuffix(Base(name), Ext(name)))

\* the public base URL baked into each variant's item template
BaseURL(variant) ==
    IF variant = "prefix"
    THEN "https://joshlavin.com/feeds/"
    ELSE "https://podcasts.jlavin.com/files/"

\* mutant: an m4a object is given the type audio/mp4
RenderItem_TypeByExtension(variant, name, size, date) ==
    <<"     <item>", NL, "         <title>">> \o titleFromName(name)
      \o <<"</title>", NL, "         <pubDate>", date, "</pubDate>", NL,
           "         <enclosure url=\"", BaseURL(variant)>> \o name
      \o <<"\" length=\"", ToString(size),
           IF HasSuffix(ToLower(name), ExtM4a)
           THEN "\" type=\"audio/mp4\" />" ELSE "\" type=\"audio/mpeg\" />",
           NL, "     </item>">>

\* fmt.Sprintf(xmlItemTemplate, title, date, attrs.Name, size)
RenderItem(variant, name, size, date) ==
    <<"     <item>", NL, "         <title>">> \o titleFromName(name)
      \o <<"</title>", NL, "         <pubDate>", date, "</pubDate>", NL,
           "         <enclosure url=\"", BaseURL(variant)>> \o name
      \o <<"\" length=\"", ToString(size), "\" type=\"audio/mpeg\" />", NL,
           "     </item>">>

----------------------------------------------------------------------------
(* Feed merger *)

Channel == "</channel>"
Rss == "</rss>"
ChannelLine == <<Channel, NL>>
RssLine == <<Rss, NL>>
Trailer == <<Channel, NL, Rss, NL>>

\* the three TrimSuffix calls, run one after the other on a non-empty document
StripClosing(doc) ==
    IF doc # <<>>
    THEN TrimSuffix(TrimSuffix(TrimSuffix(doc, Trailer), ChannelLine), RssLine)
    ELSE doc

RECURSIVE WriteItems(_)
\* for _, item := range items { WriteString(item); WriteString("\n") }
WriteItems(its) ==
    IF its = <<>> THEN <<>>
    ELSE Head(its) \o <<NL>> \o WriteItems(Tail(its))

\* mutant: the newline is written even when there is no existing document
BuildPrefix_AlwaysNewline(stripped, its) ==
    stripped \o <<NL>> \o WriteItems(its) \o Trailer

\* main.go: the stripped document is followed by a newline
BuildPrefix(stripped, its) ==
    (IF stripped # <<>> THEN stripped \o <<NL>> ELSE <<>>)
        \o WriteItems(its) \o Trailer

\* mutant: the new items are written before the existing document
BuildFlat_ItemsFirst(stripped, its) ==
    WriteItems(its) \o stripped \o Trailer

\* process_podcast.pl Go variants: the stripped document is written as it is
BuildFlat(stripped, its) ==
    (IF stripped # <<>> THEN stripped ELSE <<>>)
        \o WriteItems(its) \o Trailer

\* mutant: an item the document already holds is not written again
BuildContent_SkipsKnown(variant, stripped, its) ==
    LET known(it) == \E i \in 0..(Len(stripped) - Len(it)) :
                        SubSeq(stripped, i + 1, i + Len(it)) = it
        fresh == SelectSeq(its, LAMBDA it : ~known(it))
    IN  IF variant = "prefix" THEN BuildPrefix(stripped, fresh)
        ELSE BuildFlat(stripped, fresh)

BuildContent(variant, stripped, its) ==
    IF variant = "prefix" THEN BuildPrefix(stripped, its)
    ELSE BuildFlat(stripped, its)

\* the merge step of a pass: strip the closing tags, append, close again
Merge(variant, doc, its) ==
    BuildContent(variant, StripClosing(doc), its)

----------------------------------------------------------------------------
(* Objects of the store *)

FilesPrefix == <<"f", "i", "l", "e", "s", "/">>

\* files/my_show_01.mp3, 1024 bytes
ObjShow == [name |-> FilesPrefix \o <<"m","y","_","s","h","o","w","_","0","1">> \o ExtMp3,
            size |-> 1024]
\* files/notes.txt
ObjNotes == [name |-> FilesPrefix \o <<"n","o","t","e","s",".","t","x","t">>,
             size |-> 7]
\* ep_2.mp3 at the root
ObjEp == [name |-> <<"e","p","_","2">> \o ExtMp3, size |-> 2048]
\* files/ep_2.mp3, where promotion puts it
ObjEpPromoted == [name |-> FilesPrefix \o ObjEp.name, size |-> 2048]
\* a</rss>.M4A: a name that carries the text of a closing tag
ObjTag == [name |-> <<"a", Rss, ".", "M", "4", "A">>, size |-> 5]
\* T.M4A at the root
ObjTalk == [name |-> <<"T", ".", "M", "4", "A">>, size |-> 5]
\* files/T.M4A, where promotion puts it
ObjTalkPromoted == [name |-> FilesPrefix \o ObjTalk.name, size |-> 5]
\* readme.txt at the root
ObjReadme == [name |-> <<"r","e","a","d","m","e",".","t","x","t">>, size |-> 3]

\* destName := "files/" + srcName: the object a promotion of o creates
Promoted(o) == [name |-> FilesPrefix \o o.name, size |-> o.size]

\* every object of the model, in the store's listing order (by name)
AllObjects == <<ObjTalk, ObjTag, ObjEp, ObjTalkPromoted, ObjEpPromoted, ObjShow,
               ObjNotes, ObjReadme>>

\* time.Now().Format(...) at second resolution
FormatDate(t) == ToString(t)

----------------------------------------------------------------------------
(* The merge step on its own: any existing document, any rendered items *)

\* pieces of text an existing document can end with
TailChunks == {ChannelLine, RssLine, <<Channel>>, <<Rss>>, <<NL>>}

\* an item block as a pass leaves it in the document
OldItem(v) == RenderItem(v, ObjShow.name, ObjShow.size, FormatDate(0)) \o <<NL>>

\* what an existing document can start with: nothing, a header line, items
Bodies(v) == {<<>>, <<"<channel>">>, <<"<channel>", NL>>,
              <<"<channel>", NL>> \o OldItem(v)}

RECURSIVE TailsUpTo(_)
TailsUpTo(n) ==
    IF n = 0 THEN {<<>>}
    ELSE LET shorter == TailsUpTo(n - 1)
         IN  shorter \cup {t \o c : t \in shorter, c \in TailChunks}

ExistingDocs(v) == {b \o t : b \in Bodies(v), t \in TailsUpTo(MaxChunks)}

NewItem(v) == RenderItem(v, ObjEp.name, ObjEp.size, FormatDate(1))

\* n copies of the new item, as one pass renders them
NewItems(v, n) == [i \in 1..n |-> NewItem(v)]

Variants == {"prefix", "flatroot", "event"}

\* processFile renders exactly one item; processFiles any number
ItemCounts(v) == IF v = "event" THEN {1} ELSE 0..MaxNewItems

----------------------------------------------------------------------------
(* The running service: state after construction *)

cacheTTL == 60

\* the zero time.Time lies more than a TTL before every reading of the clock
ZeroTime == 0 - cacheTTL

\* the clock advances by one of these amounts
TickSteps == {cacheTTL - 1, cacheTTL}

\* a step that returns nothing and answers nothing
NoOut == [proc |-> 0, call |-> FALSE, err |-> FALSE, val |-> <<>>,
          fetched |-> FALSE, mark |-> FALSE, held |-> {},
          status |-> 0, body |-> <<>>, why |-> ""]

\* a document with a header line and the trailer
HeaderDoc == <<"<channel>", NL>> \o Trailer

\* what the index object can be when the service starts:
\* absent, present with no bytes, present and well formed
InitialIndex == {<<>>, <<(<<>>)>>, <<HeaderDoc>>}

\* what the audio bucket holds when the service starts
InitialObjects(cfg) ==
    IF cfg = "prefix" THEN {ObjShow, ObjNotes}
    ELSE IF cfg = "flatroot" THEN {ObjEp, ObjTalk, ObjShow}
    ELSE {ObjTag, ObjReadme}

SysInit(cfg, objs, idx) ==
    /\ config = cfg
    /\ objects = objs
    /\ indexObj = idx
    /\ cachedContent = <<>>
    /\ cacheTime = ZeroTime
    /\ rheld = {}
    /\ wheld = {}
    /\ now = 0
    /\ nticks = 0
    /\ npasses = 0
    /\ pc = [p \in Procs |-> "idle"]
    /\ req = [p \in Procs |-> "none"]
    /\ iter = [p \in Procs |-> <<>>]
    /\ cur = [p \in Procs |-> <<>>]
    /\ items = [p \in Procs |-> <<>>]
    /\ content = [p \in Procs |-> <<>>]
    /\ existing = [p \in Procs |-> <<>>]
    /\ readErr = [p \in Procs |-> ""]
    /\ out = NoOut
    /\ held = [p \in Procs |-> {}]
    /\ mark = [p \in Procs |-> FALSE]
    /\ fetched = [p \in Procs |-> FALSE]
    /\ passDone = FALSE
    /\ filled = FALSE

MergeIdle ==
    /\ mvariant = "prefix"
    /\ mexisting = <<>>
    /\ mitems = <<>>
    /\ mout = <<>>
    /\ mcount = 0

TitleIdle ==
    /\ tname = <<>>
    /\ ttitle = <<>>
    /\ tdone = FALSE

\* init() has found its configuration and main() has opened the listener
Booted ==
    /\ bucketName = "podcasts"
    /\ filesBucketName = IF config = "event" THEN "podcast-files" ELSE ""
    /\ phase = "serving"

\* the listener is open
Serving == phase = "serving"

Init ==
    /\ \E cfg \in Variants : \E idx \in InitialIndex :
           SysInit(cfg, InitialObjects(cfg), idx)
    /\ MergeIdle
    /\ TitleIdle
    /\ Booted

----------------------------------------------------------------------------
(* getIndexXML *)

\* the documents the index object holds: none when it is absent
IndexDocs == {indexObj[i] : i \in 1..Len(indexObj)}

\* history bookkeeping on entry to getIndexXML
BeginCall(p) ==
    /\ held' = [held EXCEPT ![p] = IndexDocs]
    /\ mark' = [mark EXCEPT ![p] = passDone]
    /\ fetched' = [fetched EXCEPT ![p] = FALSE]
    /\ passDone' = FALSE
    /\ content' = [content EXCEPT ![p] = <<>>]

\* the locals of a getIndexXML call go out of scope
EndCall(p) ==
    /\ held' = [held EXCEPT ![p] = {}]
    /\ mark' = [mark EXCEPT ![p] = FALSE]
    /\ fetched' = [fetched EXCEPT ![p] = FALSE]
    /\ content' = [content EXCEPT ![p] = <<>>]

ErrFeedBody == <<"{\"error\":\"Failed to fetch podcast feed\"}">>
ErrProcessBody == <<"{\"error\":\"Processing failed\"}">>
OkProcessBody == <<"{\"status\":\"processing completed\"}">>
ErrReadBody == <<"{\"error\":\"Failed to read request body\"}">>
ErrParseBody == <<"{\"error\":\"Failed to parse event payload\"}">>

\* mutant: feedHandler answers an error of getIndexXML with 200 and what the
\* cache holds
Returns_ServesCached(p, err, val, didFetch, why) ==
    /\ out' = [proc |-> p, call |-> TRUE, err |-> err, val |-> val,
               fetched |-> didFetch, mark |-> mark[p], held |-> held[p],
               status |-> IF req[p] = "feed" THEN 200 ELSE 0,
               body |-> IF req[p] = "feed" THEN (IF err THEN cachedContent ELSE val)
                        ELSE <<>>,
               why |-> why]
    /\ EndCall(p)
    /\ IF req[p] = "feed"
       THEN /\ pc' = [pc EXCEPT ![p] = "idle"]
            /\ req' = [req EXCEPT ![p] = "none"]
            /\ UNCHANGED <<existing, readErr>>
       ELSE /\ pc' = [pc EXCEPT ![p] = "p_write"]
            /\ existing' = [existing EXCEPT ![p] = IF err THEN <<>> ELSE val]
            /\ readErr' = [readErr EXCEPT ![p] = why]

\* getIndexXML returns (val, err) to its caller: feedHandler answers 200 with
\* the content or 500, processFiles / processFile take it as existingContent
\* ("" on error) and go on; why names the error, "" when there is none
Returns(p, err, val, didFetch, why) ==
    /\ out' = [proc |-> p, call |-> TRUE, err |-> err, val |-> val,
               fetched |-> didFetch, mark |-> mark[p], held |-> held[p],
               status |-> IF req[p] = "feed" THEN (IF err THEN 500 ELSE 200) ELSE 0,
               body |-> IF req[p] = "feed" THEN (IF err THEN ErrFeedBody ELSE val)
                        ELSE <<>>,
               why |-> why]
    /\ EndCall(p)
    /\ IF req[p] = "feed"
       THEN /\ pc' = [pc EXCEPT ![p] = "idle"]
            /\ req' = [req EXCEPT ![p] = "none"]
            /\ UNCHANGED <<existing, readErr>>
       ELSE /\ pc' = [pc EXCEPT ![p] = "p_write"]
            /\ existing' = [existing EXCEPT ![p] = IF err THEN <<>> ELSE val]
            /\ readErr' = [readErr EXCEPT ![p] = why]
            /\ UNCHANGED req

\* GET /, /feed, /index.xml
FeedStart(p) ==
    /\ Serving
    /\ pc[p] = "idle"
    /\ pc' = [pc EXCEPT ![p] = "g_rlock"]
    /\ req' = [req EXCEPT ![p] = "feed"]
    /\ out' = NoOut
    /\ BeginCall(p)
    /\ UNCHANGED <<storevars, cachevars, clockvars, npasses, passvars, filled,
                   mergevars, titlevars, bootvars>>

\* a goroutine waits in cacheMutex.Lock() behind the readers that hold the lock
WriterWaiting == rheld # {} /\ \E q \in Procs : pc[q] \in {"g_lock", "p_lock"}

\* cacheMutex.RLock(): sync.RWMutex lets no new reader in while a writer
\* holds the lock or waits for it
GRLock(p) ==
    /\ pc[p] = "g_rlock"
    /\ wheld = {}
    /\ ~WriterWaiting
    /\ rheld' = rheld \cup {p}
    /\ pc' = [pc EXCEPT ![p] = "g_check"]
    /\ out' = NoOut
    /\ UNCHANGED <<storevars, cachedContent, cacheTime, wheld, clockvars, npasses,
                   req, passvars, content, histvars, mergevars, titlevars, bootvars>>

\* the freshness test of the cache
CacheHit == cachedContent # <<>> /\ now - cacheTime < cacheTTL

\* mutant: a miss goes on to the store read with the read lock still held
GCheck_KeepsLockOnMiss(p) ==
    /\ pc[p] = "g_check"
    /\ IF CacheHit
       THEN /\ rheld' = rheld \ {p}
            /\ Returns(p, FALSE, cachedContent, FALSE, "")
       ELSE /\ rheld' = rheld
            /\ pc' = [pc EXCEPT ![p] = "g_fetch"]
            /\ out' = NoOut
            /\ UNCHANGED <<req, existing, readErr, content, held, mark, fetched>>
    /\ UNCHANGED <<storevars, cachedContent, cacheTime, wheld, clockvars, npasses,
                   iter, cur, items, passDone, filled, mergevars, titlevars, bootvars>>

\* the test under the read lock; a hit returns under it, a miss unlocks
GCheck(p) ==
    /\ pc[p] = "g_check"
    /\ rheld' = rheld \ {p}
    /\ IF CacheHit
       THEN Returns(p, FALSE, cachedContent, FALSE, "")
       ELSE /\ pc' = [pc EXCEPT ![p] = "g_fetch"]
            /\ out' = NoOut
            /\ UNCHANGED <<req, existing, readErr, content, held, mark, fetched>>
    /\ UNCHANGED <<storevars, cachedContent, cacheTime, wheld, clockvars, npasses,
                   iter, cur, items, passDone, filled, mergevars, titlevars, bootvars>>

\* NewReader + ReadAll on the index object
GFetch(p) ==
    /\ pc[p] = "g_fetch"
    /\ \/ \* NewReader finds no index object
          /\ indexObj = <<>>
          /\ Returns(p, TRUE, <<>>, TRUE, "absent")
       \/ \* NewReader or ReadAll fails: the store cannot be reached or read
          Returns(p, TRUE, <<>>, TRUE, "read")
       \/ /\ indexObj # <<>>
          /\ content' = [content EXCEPT ![p] = indexObj[1]]
          /\ fetched' = [fetched EXCEPT ![p] = TRUE]
          /\ pc' = [pc EXCEPT ![p] = "g_lock"]
          /\ out' = NoOut
          /\ UNCHANGED <<req, existing, readErr, held, mark>>
    /\ UNCHANGED <<storevars, cachevars, clockvars, npasses, iter, cur, items,
                   passDone, filled, mergevars, titlevars, bootvars>>

\* cacheMutex.Lock() of the refill
GLock(p) ==
    /\ pc[p] = "g_lock"
    /\ rheld = {}
    /\ wheld = {}
    /\ wheld' = {p}
    /\ pc' = [pc EXCEPT ![p] = "g_store"]
    /\ out' = NoOut
    /\ UNCHANGED <<storevars, cachedContent, cacheTime, rheld, clockvars, npasses,
                   req, passvars, content, histvars, mergevars, titlevars, bootvars>>

\* the refill under the write lock, then Unlock
GStore(p) ==
    /\ pc[p] = "g_store"
    /\ cachedContent' = content[p]
    /\ cacheTime' = now
    /\ wheld' = {}
    /\ filled' = TRUE
    /\ pc' = [pc EXCEPT ![p] = "g_ret"]
    /\ out' = NoOut
    /\ UNCHANGED <<storevars, rheld, clockvars, npasses, req, passvars, content,
                   held, mark, fetched, passDone, mergevars, titlevars, bootvars>>

Garbage == "<bytes past the end>"

\* a string is a (pointer, length) pair: a read that races with a write can
\* pair the pointer of one value with the length of the other
Torn(ptr, len) ==
    IF Len(len) <= Len(ptr) THEN SubSeq(ptr, 1, Len(len))
    ELSE ptr \o <<Garbage>>

\* what the read of cachedContent outside the lock can produce: the value
\* this goroutine stored, the value another goroutine put there since,
\* or a mix of the two
RacyRead(own, shared) == {own, shared, Torn(own, shared), Torn(shared, own)}

\* return cachedContent, nil: after Unlock
GRet(p) ==
    /\ pc[p] = "g_ret"
    /\ \E v \in RacyRead(content[p], cachedContent) : Returns(p, FALSE, v, TRUE, "")
    /\ UNCHANGED <<storevars, cachevars, clockvars, npasses, iter, cur, items,
                   passDone, filled, mergevars, titlevars, bootvars>>

----------------------------------------------------------------------------
(* The processing pass *)

\* mutant: no object counts as being inside a folder
InFolder_Never(name) == name # name

\* strings.Contains(name, "/")
InFolder(name) == \E i \in 1..Len(name) : HasSlash(name[i])

\* the objects a listing returns, in the store's order: main.go lists under
\* files/, the flat-root variant lists the whole bucket
Listing ==
    SelectSeq(AllObjects,
              LAMBDA o : /\ o \in objects
                         /\ (config = "prefix" => HasPrefix(o.name, FilesPrefix)))

\* the locals of a pass go out of scope
EndPass(p) ==
    /\ pc' = [pc EXCEPT ![p] = "idle"]
    /\ req' = [req EXCEPT ![p] = "none"]
    /\ iter' = [iter EXCEPT ![p] = <<>>]
    /\ cur' = [cur EXCEPT ![p] = <<>>]
    /\ items' = [items EXCEPT ![p] = <<>>]
    /\ existing' = [existing EXCEPT ![p] = <<>>]
    /\ readErr' = [readErr EXCEPT ![p] = ""]

\* processHandler answers; why names what ended the handler
Answer(p, status, body, why) ==
    out' = [NoOut EXCEPT !.proc = p, !.status = status, !.body = body, !.why = why]

\* the pass returns an error: processHandler answers 500
PassFails(p, why) ==
    /\ Answer(p, 500, ErrProcessBody, why)
    /\ EndPass(p)

\* mutant: a pass starts only when no other pass is in flight
ProcessStart_Exclusive(p) ==
    /\ Serving
    /\ pc[p] = "idle"
    /\ \A q \in Procs : req[q] # "process"
    /\ config \in {"prefix", "flatroot"}
    /\ npasses < MaxPasses
    /\ npasses' = npasses + 1
    /\ req' = [req EXCEPT ![p] = "process"]
    /\ pc' = [pc EXCEPT ![p] = "p_next"]
    /\ iter' = [iter EXCEPT ![p] = Listing]
    /\ out' = NoOut
    /\ UNCHANGED <<storevars, cachevars, clockvars, cur, items, existing, readErr, content,
                   histvars, mergevars, titlevars, bootvars>>

\* POST /process of processFiles: the iterator is created
ProcessStart(p) ==
    /\ Serving
    /\ pc[p] = "idle"
    /\ config \in {"prefix", "flatroot"}
    /\ npasses < MaxPasses
    /\ npasses' = npasses + 1
    /\ req' = [req EXCEPT ![p] = "process"]
    /\ pc' = [pc EXCEPT ![p] = "p_next"]
    /\ iter' = [iter EXCEPT ![p] = Listing]
    /\ out' = NoOut
    /\ UNCHANGED <<storevars, cachevars, clockvars, cur, items, existing, readErr, content,
                   histvars, mergevars, titlevars, bootvars>>

\* mutant: the rejected request clears the cache on its way out
ProcessReject_Invalidates(p) ==
    /\ Serving
    /\ pc[p] = "idle"
    /\ Answer(p, 405, <<>>, "method")
    /\ cachedContent' = <<>>
    /\ UNCHANGED <<storevars, cacheTime, rheld, wheld, clockvars, npasses, pc, req,
                   passvars, content, histvars, mergevars, titlevars, bootvars>>

\* /process with a method other than POST
ProcessReject(p) ==
    /\ Serving
    /\ pc[p] = "idle"
    /\ Answer(p, 405, <<>>, "method")
    /\ UNCHANGED <<storevars, cachevars, clockvars, npasses, pc, req, passvars,
                   content, histvars, mergevars, titlevars, bootvars>>

\* one turn of the listing loop of main.go: it.Next(), the extension test,
\* the rendering of the item
ListNextPrefix(p) ==
    /\ pc[p] = "p_next"
    /\ config = "prefix"
    /\ \/ \* it.Next() fails
          PassFails(p, "list")
       \/ \* the listing is over: Next returns iterator.Done, which is not
          \* storage.ErrObjectNotExist, so the loop returns it as an error
          /\ iter[p] = <<>>
          /\ PassFails(p, "done")
       \/ /\ iter[p] # <<>>
          /\ LET attrs == Head(iter[p])
             IN  /\ iter' = [iter EXCEPT ![p] = Tail(iter[p])]
                 /\ items' = [items EXCEPT ![p] =
                       IF isAudio(attrs.name)
                       THEN Append(items[p], RenderItem(config, attrs.name,
                                                        attrs.size, FormatDate(now)))
                       ELSE items[p]]
          /\ out' = NoOut
          /\ UNCHANGED <<pc, req, cur, existing, readErr>>
    /\ UNCHANGED <<storevars, cachevars, clockvars, npasses, content, histvars,
                   mergevars, titlevars, bootvars>>

\* mutant: an object whose copy under files/ exists is not promoted again
ListNextFlat_SkipsPromoted(p) ==
    /\ pc[p] = "p_next"
    /\ config = "flatroot"
    /\ \/ /\ PassFails(p, "list")
          /\ UNCHANGED <<content, histvars>>
       \/ /\ iter[p] = <<>>
          /\ pc' = [pc EXCEPT ![p] = "g_rlock"]
          /\ BeginCall(p)
          /\ out' = NoOut
          /\ UNCHANGED <<req, passvars, filled>>
       \/ /\ iter[p] # <<>>
          /\ LET attrs == Head(iter[p])
             IN  /\ iter' = [iter EXCEPT ![p] = Tail(iter[p])]
                 /\ IF \/ InFolder(attrs.name)
                       \/ ~isAudio(attrs.name)
                       \/ Promoted(attrs) \in objects
                    THEN UNCHANGED <<pc, cur>>
                    ELSE /\ pc' = [pc EXCEPT ![p] = "p_copy"]
                         /\ cur' = [cur EXCEPT ![p] = <<attrs>>]
          /\ out' = NoOut
          /\ UNCHANGED <<req, items, existing, readErr, content, histvars>>
    /\ UNCHANGED <<storevars, cachevars, clockvars, npasses, mergevars, titlevars, bootvars>>

\* one turn of the listing loop of the flat-root variant, up to the promotion
ListNextFlat(p) ==
    /\ pc[p] = "p_next"
    /\ config = "flatroot"
    /\ \/ \* it.Next() fails
          /\ PassFails(p, "list")
          /\ UNCHANGED <<content, histvars>>
       \/ \* iterator.Done: break, and getIndexXML is called
          /\ iter[p] = <<>>
          /\ pc' = [pc EXCEPT ![p] = "g_rlock"]
          /\ BeginCall(p)
          /\ out' = NoOut
          /\ UNCHANGED <<req, passvars, filled>>
       \/ /\ iter[p] # <<>>
          /\ LET attrs == Head(iter[p])
             IN  /\ iter' = [iter EXCEPT ![p] = Tail(iter[p])]
                 /\ IF InFolder(attrs.name) \/ ~isAudio(attrs.name)
                    THEN UNCHANGED <<pc, cur>>
                    ELSE /\ pc' = [pc EXCEPT ![p] = "p_copy"]
                         /\ cur' = [cur EXCEPT ![p] = <<attrs>>]
          /\ out' = NoOut
          /\ UNCHANGED <<req, items, existing, readErr, content, histvars>>
    /\ UNCHANGED <<storevars, cachevars, clockvars, npasses, mergevars, titlevars, bootvars>>

\* mutant: a failed copy undoes the promotions made so far
PromoteCopy_RollsBack(p) ==
    /\ pc[p] = "p_copy"
    /\ LET src == cur[p][1]
       IN  \/ /\ PassFails(p, "copy")
              /\ objects' = {o \in objects : ~HasPrefix(o.name, FilesPrefix)}
           \/ /\ src \in objects
              /\ objects' = objects \cup {Promoted(src)}
              /\ pc' = [pc EXCEPT ![p] = "p_delete"]
              /\ out' = NoOut
              /\ UNCHANGED <<req, passvars>>
    /\ UNCHANGED <<config, indexObj, cachevars, clockvars, npasses, content,
                   histvars, mergevars, titlevars, bootvars>>

\* mutant: the delete is attempted although nothing was copied
PromoteCopy_SkipsCopy(p) ==
    /\ pc[p] = "p_copy"
    /\ \/ /\ PassFails(p, "copy")
          /\ UNCHANGED objects
       \/ /\ cur[p][1] \in objects
          /\ pc' = [pc EXCEPT ![p] = "p_delete"]
          /\ out' = NoOut
          /\ UNCHANGED <<objects, req, passvars>>
    /\ UNCHANGED <<config, indexObj, cachevars, clockvars, npasses, content,
                   histvars, mergevars, titlevars, bootvars>>

\* moveUnderFiles: dest.CopierFrom(src).Run
PromoteCopy(p) ==
    /\ pc[p] = "p_copy"
    /\ LET src == cur[p][1]
           dest == Promoted(src)
       IN  \/ \* the copy fails: no delete is attempted
              /\ PassFails(p, "copy")
              /\ UNCHANGED objects
           \/ /\ src \in objects
              /\ objects' = objects \cup {dest}
              /\ pc' = [pc EXCEPT ![p] = "p_delete"]
              /\ out' = NoOut
              /\ UNCHANGED <<req, passvars>>
    /\ UNCHANGED <<config, indexObj, cachevars, clockvars, npasses, content,
                   histvars, mergevars, titlevars, bootvars>>

\* mutant: the item of a promoted object is put before the items rendered so far
PromoteDelete_Prepends(p) ==
    /\ pc[p] = "p_delete"
    /\ LET src == cur[p][1]
       IN  \/ /\ PassFails(p, "delete")
              /\ UNCHANGED objects
           \/ /\ src \in objects
              /\ objects' = objects \ {src}
              /\ items' = [items EXCEPT ![p] =
                    <<RenderItem(config, src.name, src.size, FormatDate(now))>>
                        \o items[p]]
              /\ cur' = [cur EXCEPT ![p] = <<>>]
              /\ pc' = [pc EXCEPT ![p] = "p_next"]
              /\ out' = NoOut
              /\ UNCHANGED <<req, iter, existing, readErr>>
    /\ UNCHANGED <<config, indexObj, cachevars, clockvars, npasses, content,
                   histvars, mergevars, titlevars, bootvars>>

\* moveUnderFiles: src.Delete, then the item is rendered from the listed attrs
PromoteDelete(p) ==
    /\ pc[p] = "p_delete"
    /\ LET src == cur[p][1]
       IN  \/ \* the delete fails
              /\ PassFails(p, "delete")
              /\ UNCHANGED objects
           \/ /\ src \in objects
              /\ objects' = objects \ {src}
              /\ items' = [items EXCEPT ![p] =
                    Append(items[p], RenderItem(config, src.name, src.size,
                                                FormatDate(now)))]
              /\ cur' = [cur EXCEPT ![p] = <<>>]
              /\ pc' = [pc EXCEPT ![p] = "p_next"]
              /\ out' = NoOut
              /\ UNCHANGED <<req, iter, existing, readErr>>
    /\ UNCHANGED <<config, indexObj, cachevars, clockvars, npasses, content,
                   histvars, mergevars, titlevars, bootvars>>

\* the names a storage event can carry
EventNames == {ObjTag.name, ObjReadme.name, ObjNotes.name}

\* POST /process of processFile: the event names one object
EventStart(p, name) ==
    /\ Serving
    /\ pc[p] = "idle"
    /\ config = "event"
    /\ npasses < MaxPasses
    /\ npasses' = npasses + 1
    /\ req' = [req EXCEPT ![p] = "process"]
    /\ pc' = [pc EXCEPT ![p] = "p_attrs"]
    /\ cur' = [cur EXCEPT ![p] = <<name>>]
    /\ out' = NoOut
    /\ UNCHANGED <<storevars, cachevars, clockvars, iter, items, existing, readErr, content,
                   histvars, mergevars, titlevars, bootvars>>

\* POST /process of processFile with a body that cannot be read, or that is
\* not a JSON event: the handler answers and processFile is not called
EventReject(p) ==
    /\ Serving
    /\ pc[p] = "idle"
    /\ config = "event"
    /\ \/ Answer(p, 500, ErrReadBody, "body")
       \/ Answer(p, 400, ErrParseBody, "parse")
    /\ UNCHANGED <<storevars, cachevars, clockvars, npasses, pc, req, passvars,
                   content, histvars, mergevars, titlevars, bootvars>>

\* mutant: an event for an object that is not audio clears the cache
EventAttrs_SkipInvalidates(p) ==
    /\ pc[p] = "p_attrs"
    /\ LET found == {o \in objects : o.name = cur[p][1]}
       IN  \/ /\ PassFails(p, "attrs")
              /\ UNCHANGED <<content, histvars, cachedContent>>
           \/ \E attrs \in found :
                 IF isAudio(attrs.name)
                 THEN /\ items' = [items EXCEPT ![p] =
                            <<RenderItem(config, attrs.name, attrs.size,
                                         FormatDate(now))>>]
                      /\ cur' = [cur EXCEPT ![p] = <<>>]
                      /\ pc' = [pc EXCEPT ![p] = "g_rlock"]
                      /\ BeginCall(p)
                      /\ out' = NoOut
                      /\ UNCHANGED <<req, iter, existing, readErr, filled, cachedContent>>
                 ELSE /\ Answer(p, 200, OkProcessBody, "skip")
                      /\ EndPass(p)
                      /\ cachedContent' = <<>>
                      /\ UNCHANGED <<content, histvars>>
    /\ UNCHANGED <<storevars, cacheTime, rheld, wheld, clockvars, npasses, mergevars,
                   titlevars, bootvars>>

\* processFile: Attrs of the named object, the extension test, the item
EventAttrs(p) ==
    /\ pc[p] = "p_attrs"
    /\ LET found == {o \in objects : o.name = cur[p][1]}
       IN  \/ \* Attrs fails (the object is absent, or the store is)
              /\ PassFails(p, "attrs")
              /\ UNCHANGED <<content, histvars>>
           \/ \E attrs \in found :
                 IF isAudio(attrs.name)
                 THEN /\ items' = [items EXCEPT ![p] =
                            <<RenderItem(config, attrs.name, attrs.size,
                                         FormatDate(now))>>]
                      /\ cur' = [cur EXCEPT ![p] = <<>>]
                      /\ pc' = [pc EXCEPT ![p] = "g_rlock"]
                      /\ BeginCall(p)
                      /\ out' = NoOut
                      /\ UNCHANGED <<req, iter, existing, readErr, filled>>
                 ELSE \* not audio: return nil, processHandler answers 200
                      /\ Answer(p, 200, OkProcessBody, "skip")
                      /\ EndPass(p)
                      /\ UNCHANGED <<content, histvars>>
    /\ UNCHANGED <<storevars, cachevars, clockvars, npasses, mergevars, titlevars, bootvars>>

\* goroutines inside getIndexXML
InCall(q) == pc[q] \in {"g_rlock", "g_check", "g_fetch", "g_lock", "g_store", "g_ret"}

\* mutant: a pass with no new item skips the write
PWrite_SkipsEmpty(p) ==
    /\ pc[p] = "p_write"
    /\ \/ /\ PassFails(p, "write")
          /\ UNCHANGED <<indexObj, held>>
       \/ LET newContent == Merge(config, existing[p], items[p])
          IN  /\ indexObj' = IF items[p] = <<>> THEN indexObj ELSE <<newContent>>
              /\ held' = [q \in Procs |->
                            IF InCall(q) /\ items[p] # <<>>
                            THEN held[q] \cup {newContent} ELSE held[q]]
              /\ pc' = [pc EXCEPT ![p] = "p_lock"]
              /\ out' = NoOut
              /\ UNCHANGED <<req, passvars>>
    /\ UNCHANGED <<config, objects, cachevars, clockvars, npasses, content, mark,
                   fetched, passDone, filled, mergevars, titlevars, bootvars>>

\* the merge step, then NewWriter, WriteString and Close on the index object:
\* the object is replaced when Close succeeds
PWrite(p) ==
    /\ pc[p] = "p_write"
    /\ \/ \* WriteString or Close fails
          /\ PassFails(p, "write")
          /\ UNCHANGED <<indexObj, held>>
       \/ LET newContent == Merge(config, existing[p], items[p])
          IN  /\ indexObj' = <<newContent>>
              /\ held' = [q \in Procs |->
                            IF InCall(q) THEN held[q] \cup {newContent} ELSE held[q]]
              /\ pc' = [pc EXCEPT ![p] = "p_lock"]
              /\ out' = NoOut
              /\ UNCHANGED <<req, passvars>>
    /\ UNCHANGED <<config, objects, cachevars, clockvars, npasses, content, mark,
                   fetched, passDone, filled, mergevars, titlevars, bootvars>>

\* cacheMutex.Lock() of the invalidation
PLock(p) ==
    /\ pc[p] = "p_lock"
    /\ rheld = {}
    /\ wheld = {}
    /\ wheld' = {p}
    /\ pc' = [pc EXCEPT ![p] = "p_clear"]
    /\ out' = NoOut
    /\ UNCHANGED <<storevars, cachedContent, cacheTime, rheld, clockvars, npasses,
                   req, passvars, content, histvars, mergevars, titlevars, bootvars>>

\* mutant: the pass returns without clearing the cache
PClear_KeepsCache(p) ==
    /\ pc[p] = "p_clear"
    /\ wheld' = {}
    /\ passDone' = TRUE
    /\ Answer(p, 200, OkProcessBody, "")
    /\ EndPass(p)
    /\ UNCHANGED <<storevars, cachedContent, cacheTime, rheld, clockvars, npasses,
                   content, held, mark, fetched, filled, mergevars, titlevars, bootvars>>

\* cachedContent = "", Unlock, return nil: processHandler answers 200
PClear(p) ==
    /\ pc[p] = "p_clear"
    /\ cachedContent' = <<>>
    /\ wheld' = {}
    /\ filled' = FALSE
    /\ passDone' = TRUE
    /\ Answer(p, 200, OkProcessBody, "")
    /\ EndPass(p)
    /\ UNCHANGED <<storevars, cacheTime, rheld, clockvars, npasses, content, held,
                   mark, fetched, mergevars, titlevars, bootvars>>

\* time passes
Tick(d) ==
    /\ nticks < MaxTicks
    /\ nticks' = nticks + 1
    /\ now' = now + d
    /\ out' = NoOut
    /\ UNCHANGED <<storevars, cachevars, npasses, pc, req, passvars, content,
                   histvars, mergevars, titlevars, bootvars>>

Next ==
    \/ \E p \in Procs : FeedStart(p)
    \/ \E p \in Procs : GRLock(p)
    \/ \E p \in Procs : GCheck(p)
    \/ \E p \in Procs : GFetch(p)
    \/ \E p \in Procs : GLock(p)
    \/ \E p \in Procs : GStore(p)
    \/ \E p \in Procs : GRet(p)
    \/ \E p \in Procs : ProcessStart(p)
    \/ \E p \in Procs : ProcessReject(p)
    \/ \E p \in Procs : ListNextPrefix(p)
    \/ \E p \in Procs : ListNextFlat(p)
    \/ \E p \in Procs : PromoteCopy(p)
    \/ \E p \in Procs : PromoteDelete(p)
    \/ \E p \in Procs : \E name \in EventNames : EventStart(p, name)
    \/ \E p \in Procs : EventReject(p)
    \/ \E p \in Procs : EventAttrs(p)
    \/ \E p \in Procs : PWrite(p)
    \/ \E p \in Procs : PLock(p)
    \/ \E p \in Procs : PClear(p)
    \/ \E d \in TickSteps : Tick(d)

Spec == Init /\ [][Next]_vars

\* no pass is in flight
NoPassInFlight == \A q \in Procs : req[q] # "process"

\* the trigger of a deployment that keeps at most one pass in flight
SerialProcessStart(p) == NoPassInFlight /\ ProcessStart(p)
SerialEventStart(p, name) == NoPassInFlight /\ EventStart(p, name)

\* the service with its passes serialized from outside; feed reads run freely
NextSerial ==
    \/ \E p \in Procs : FeedStart(p)
    \/ \E p \in Procs : GRLock(p)
    \/ \E p \in Procs : GCheck(p)
    \/ \E p \in Procs : GFetch(p)
    \/ \E p \in Procs : GLock(p)
    \/ \E p \in Procs : GStore(p)
    \/ \E p \in Procs : GRet(p)
    \/ \E p \in Procs : SerialProcessStart(p)
    \/ \E p \in Procs : ProcessReject(p)
    \/ \E p \in Procs : ListNextPrefix(p)
    \/ \E p \in Procs : ListNextFlat(p)
    \/ \E p \in Procs : PromoteCopy(p)
    \/ \E p \in Procs : PromoteDelete(p)
    \/ \E p \in Procs : \E name \in EventNames : SerialEventStart(p, name)
    \/ \E p \in Procs : EventReject(p)
    \/ \E p \in Procs : EventAttrs(p)
    \/ \E p \in Procs : PWrite(p)
    \/ \E p \in Procs : PLock(p)
    \/ \E p \in Procs : PClear(p)
    \/ \E d \in TickSteps : Tick(d)

SpecSerial == Init /\ [][NextSerial]_vars

----------------------------------------------------------------------------
(* The service started on a bucket whose feed holds an episode already *)

\* the item an earlier pass rendered for my_show_01.mp3: the flat-root variant
\* renders the name the object had at the root, the others the listed name
FeedItem(cfg) ==
    RenderItem(cfg, IF cfg = "flatroot" THEN Base(ObjShow.name) ELSE ObjShow.name,
               ObjShow.size, FormatDate(0))

\* the index object as a successful pass leaves it
FeedDoc(cfg) == <<"<channel>", NL>> \o FeedItem(cfg) \o <<NL>> \o Trailer

InitFeed ==
    /\ \E cfg \in Variants : SysInit(cfg, InitialObjects(cfg), <<FeedDoc(cfg)>>)
    /\ MergeIdle
    /\ TitleIdle
    /\ Booted

SpecFeed == InitFeed /\ [][Next]_vars

----------------------------------------------------------------------------
(* The service with its scheduling: every request in flight keeps running *)

\* a step of the request goroutine p is serving
Continue(p) ==
    \/ GRLock(p)
    \/ GCheck(p)
    \/ GFetch(p)
    \/ GLock(p)
    \/ GStore(p)
    \/ GRet(p)
    \/ ListNextPrefix(p)
    \/ ListNextFlat(p)
    \/ PromoteCopy(p)
    \/ PromoteDelete(p)
    \/ EventAttrs(p)
    \/ PWrite(p)
    \/ PLock(p)
    \/ PClear(p)

\* the Go scheduler runs every runnable goroutine, and sync.RWMutex lets no
\* goroutine wait for ever on a lock that keeps being released
Fairness == \A p \in Procs : SF_vars(Continue(p))

\* the requests of the service with the clock standing still: time plays no
\* part in the locking
NextLive ==
    \/ \E p \in Procs : FeedStart(p)
    \/ \E p \in Procs : ProcessStart(p)
    \/ \E p \in Procs : ProcessReject(p)
    \/ \E p \in Procs : \E name \in EventNames : EventStart(p, name)
    \/ \E p \in Procs : EventReject(p)
    \/ \E p \in Procs : Continue(p)

SpecLive == Init /\ [][NextLive]_vars /\ Fairness

----------------------------------------------------------------------------
(* The service with its health endpoint *)

HealthBody == <<"{\"status\":\"ok\"}">>

\* mutant: the health endpoint reports an absent index object
healthHandler_ChecksIndex ==
    /\ Serving
    /\ out' = [NoOut EXCEPT !.status = IF indexObj = <<>> THEN 500 ELSE 200,
                            !.body = HealthBody, !.why = "health"]
    /\ UNCHANGED <<storevars, cachevars, clockvars, npasses, pc, req, passvars,
                   content, histvars, mergevars, titlevars, bootvars>>

\* GET /health: the handler writes its answer and reads no variable of the
\* package; it runs on a goroutine of its own
healthHandler ==
    /\ Serving
    /\ out' = [NoOut EXCEPT !.status = 200, !.body = HealthBody, !.why = "health"]
    /\ UNCHANGED <<storevars, cachevars, clockvars, npasses, pc, req, passvars,
                   content, histvars, mergevars, titlevars, bootvars>>

NextHealth ==
    \/ NextLive
    \/ healthHandler

SpecHealth == Init /\ [][NextHealth]_vars

----------------------------------------------------------------------------
(* The process from its start: init(), then main() *)

\* required configuration is missing
Missing == bucketName = "" \/ (config = "event" /\ filesBucketName = "")

\* mutant: a missing bucket name is logged and the listener is opened
init_StartsAnyway ==
    /\ phase = "init"
    /\ phase' = "serving"
    /\ UNCHANGED <<sysvars, mergevars, titlevars, bucketName, filesBucketName>>

\* init(): log.Fatal when a bucket name is missing or the client cannot be
\* made; otherwise main() runs and ListenAndServe opens the listener or fails
init ==
    /\ phase = "init"
    /\ IF Missing
       THEN phase' = "exited"
       ELSE phase' \in {"exited", "serving"}
    /\ UNCHANGED <<sysvars, mergevars, titlevars, bucketName, filesBucketName>>

\* the environment the process is started in
InitBoot ==
    /\ \E cfg \in Variants : \E idx \in InitialIndex :
           SysInit(cfg, InitialObjects(cfg), idx)
    /\ MergeIdle
    /\ TitleIdle
    /\ bucketName \in {"", "podcasts"}
    /\ filesBucketName \in (IF config = "event" THEN {"", "podcast-files"} ELSE {""})
    /\ phase = "init"

NextBoot ==
    \/ init
    \/ NextHealth

SpecBoot == InitBoot /\ [][NextBoot]_vars

----------------------------------------------------------------------------
(* The merge step applied to any existing document *)

InitMerge ==
    /\ SysInit("prefix", {}, <<>>)
    /\ mvariant \in Variants
    /\ mexisting \in ExistingDocs(mvariant)
    /\ mitems = <<>>
    /\ mout = <<>>
    /\ mcount = 0
    /\ TitleIdle
    /\ Booted

\* one pass's merge: the first on the initial document, each later one on
\* the document the one before it wrote
MergeStep(n) ==
    /\ mcount < MaxMerges
    /\ n \in ItemCounts(mvariant)
    /\ LET base == IF mcount = 0 THEN mexisting ELSE mout
           its == NewItems(mvariant, n)
       IN  /\ mexisting' = base
           /\ mitems' = its
           /\ mout' = Merge(mvariant, base, its)
    /\ mcount' = mcount + 1
    /\ UNCHANGED <<mvariant, sysvars, titlevars, bootvars>>

NextMerge == \E n \in 0..MaxNewItems : MergeStep(n)

SpecMerge == InitMerge /\ [][NextMerge]_vars

----------------------------------------------------------------------------
(* The title derivation applied to any audio object name *)

\* the characters a drawn name is made of
NameChars == {"a", "_", "1", " ", "/", "."}

RECURSIVE StemsUpTo(_)
StemsUpTo(n) ==
    IF n = 0 THEN {<<>>}
    ELSE LET shorter == StemsUpTo(n - 1)
         IN  shorter \cup {Append(t, c) : t \in shorter, c \in NameChars}

\* ep_01_intro.mp3 and 01_intro.mp3
NameEpIntro == <<"e","p","_","0","1","_","i","n","t","r","o">> \o ExtMp3
NameIntro == <<"0","1","_","i","n","t","r","o">> \o ExtMp3

\* the names that pass the selection rule and reach the derivation
TitleNames ==
    {s \o e : s \in StemsUpTo(MaxStem), e \in {ExtMp3, <<".", "M", "4", "A">>}}
        \cup {NameEpIntro, NameIntro, ObjShow.name}

InitTitle ==
    /\ SysInit("prefix", {}, <<>>)
    /\ MergeIdle
    /\ tname \in TitleNames
    /\ ttitle = <<>>
    /\ tdone = FALSE
    /\ Booted

\* title := titleFromName(attrs.Name)
DeriveTitle ==
    /\ ~tdone
    /\ ttitle' = titleFromName(tname)
    /\ tdone' = TRUE
    /\ UNCHANGED <<tname, sysvars, mergevars, bootvars>>

SpecTitle == InitTitle /\ [][DeriveTitle]_vars

----------------------------------------------------------------------------
(* Properties of the merge step *)

RECURSIVE ClosingOnly(_)
\* s is made of whole closing lines and nothing else
ClosingOnly(s) ==
    \/ s = <<>>
    \/ HasSuffix(s, ChannelLine) /\ ClosingOnly(SubSeq(s, 1, Len(s) - 2))
    \/ HasSuffix(s, RssLine) /\ ClosingOnly(SubSeq(s, 1, Len(s) - 2))

\* mout is the first k tokens of mexisting, then the new items in order, each
\* on its own lines, then the trailer
KeepsFirst(k) ==
    /\ HasPrefix(mout, SubSeq(mexisting, 1, k))
    /\ SubSeq(mout, k + 1, Len(mout))
          \in {WriteItems(mitems) \o Trailer, <<NL>> \o WriteItems(mitems) \o Trailer}

\* C5: the merged document begins with the existing document less the closing
\* lines stripped from its end, byte for byte, and the new items follow it
C5_MergeKeepsExisting ==
    mcount > 0 =>
        \E k \in 0..Len(mexisting) :
            /\ ClosingOnly(SubSeq(mexisting, k + 1, Len(mexisting)))
            /\ KeepsFirst(k)

C5_Witness ==
    /\ mcount > 0
    /\ mitems # <<>>
    /\ HasPrefix(mexisting, <<"<channel>", NL>> \o OldItem(mvariant))
    /\ HasSuffix(mexisting, Trailer)

\* C6: merging no new item into a document that ends in the trailer gives the
\* document back unchanged
C6_EmptyMergeIsNoOp ==
    (mcount > 0 /\ mitems = <<>> /\ HasSuffix(mexisting, Trailer)) => mout = mexisting

\* C7: merging no new item into the empty document gives exactly the trailer
C7_EmptyMergeOfEmpty ==
    (mcount > 0 /\ mitems = <<>> /\ mexisting = <<>>) => mout = Trailer

C7_Witness ==
    /\ mcount > 0
    /\ mitems = <<>>
    /\ mexisting = <<>>
    /\ mvariant = "prefix"

\* C8: from a document that ends in the two-line trailer exactly that one
\* occurrence is removed and nothing more
C8_AtMostOneTrailer ==
    (mcount > 0 /\ HasSuffix(mexisting, Trailer)) => KeepsFirst(Len(mexisting) - Len(Trailer))

\* empty lines of a document
BlankLines(doc) ==
    Cardinality({i \in 1..Len(doc) : doc[i] = NL /\ (i = 1 \/ doc[i - 1] = NL)})

ItemEnd == "     </item>"

\* every item block is followed by one newline and then by something else
ItemsSingleSpaced(doc) ==
    \A i \in 1..Len(doc) :
        doc[i] = ItemEnd =>
            /\ i + 2 <= Len(doc)
            /\ doc[i + 1] = NL
            /\ doc[i + 2] # NL

\* C9: a merge adds no blank line, and items that were one newline apart from
\* what follows them stay so
C9_NoBlankLineDrift ==
    mcount > 0 =>
        /\ BlankLines(mout) <= BlankLines(mexisting)
        /\ ItemsSingleSpaced(mexisting) => ItemsSingleSpaced(mout)

----------------------------------------------------------------------------
(* Properties of the cache and of the running service *)

\* C1: the first getIndexXML call begun after a pass wrote the document and
\* returned reads the store and returns a document the store held since then
C1_NextReadSeesNewDocument ==
    (out.call /\ out.mark) =>
        /\ out.fetched
        /\ ~out.err => out.val \in out.held

\* the cache of the specification: filled, not invalidated since, younger than TTL
Fresh == filled /\ now - cacheTime < cacheTTL

\* C2: a read goes to the store exactly when the cache is stale
C2_FetchIffStale ==
    \A p \in Procs : pc[p] = "g_check" => (CacheHit <=> Fresh)

\* C3: a call that read the store and succeeds returns a whole document that
\* the index object held at some point during the call: not a torn, partial
\* or cleared value in place of the document it fetched
C3_ReturnsHeldDocument ==
    (out.call /\ ~out.err /\ out.fetched) => out.val \in out.held

\* C4: whoever is about to read or write cachedContent or cacheTime holds
\* cacheMutex, so no write is concurrent with a read or with another write
C4_CacheAccessUnderLock ==
    \A p \in Procs :
        /\ pc[p] = "g_check" => p \in rheld
        /\ pc[p] \in {"g_store", "p_clear"} => p \in wheld
        /\ pc[p] = "g_ret" => p \in rheld \cup wheld

\* a document that ends with the trailer and holds no other closing tag
ValidDocument(doc) ==
    /\ HasSuffix(doc, Trailer)
    /\ \A i \in 1..(Len(doc) - Len(Trailer)) : doc[i] \notin {Channel, Rss}

\* C10: the stored document, once there is one with bytes in it, ends with the
\* trailer and holds the closing tags there and nowhere else
C10_SingleTrailer ==
    \A doc \in IndexDocs : doc # <<>> => ValidDocument(doc)

----------------------------------------------------------------------------
(* Properties of the processing pass *)

\* processHandler has just answered a POST
PassAnswered == ~out.call /\ out.status \in {200, 500}

\* C11: a pass whose enumeration fails answers an error, and the step that
\* fails leaves the stored document and the cache as they were; a pass that
\* stops at the end of its listing stops because Next failed, never because
\* the listing was over
C11_EnumerationFailureAborts ==
    [][/\ out'.why = "list" =>
            /\ out'.status = 500
            /\ indexObj' = indexObj
            /\ cachedContent' = cachedContent
            /\ cacheTime' = cacheTime
       /\ \A p \in Procs :
            (pc[p] = "p_next" /\ iter[p] = <<>> /\ pc'[p] = "idle")
                => out'.why = "list"]_vars

\* the store operations of a pass that can fail
StoreFailures == {"list", "copy", "delete", "attrs", "write"}

\* piece occurs in doc as one run of tokens
Contains(doc, piece) ==
    \E i \in 0..(Len(doc) - Len(piece)) : SubSeq(doc, i + 1, i + Len(piece)) = piece

\* number of item blocks of a document
ItemBlocks(doc) == Cardinality({i \in 1..Len(doc) : doc[i] = ItemEnd})

\* the audio objects main.go finds under files/
AudioUnderFiles ==
    {o \in objects : HasPrefix(o.name, FilesPrefix) /\ isAudio(o.name)}

\* C12: on a store of audio objects under files/, a POST /process in which no
\* store operation fails answers 200 and leaves an index object; after a single
\* pass the document holds one item block per audio object and ends with the
\* trailer, and the item of files/my_show_01.mp3 carries the title "my show",
\* the length 1024 and the object's path
C12_EndToEnd ==
    /\ (config = "prefix" /\ PassAnswered /\ out.why \notin StoreFailures) =>
            /\ out.status = 200
            /\ indexObj # <<>>
    /\ (config = "prefix" /\ passDone /\ npasses = 1) =>
            \E doc \in IndexDocs :
                /\ ItemBlocks(doc) = Cardinality(AudioUnderFiles)
                /\ HasSuffix(doc, Trailer)
                /\ \E t \in 0..now :
                      Contains(doc, RenderItem(config, ObjShow.name, 1024, FormatDate(t)))
                /\ Contains(doc, <<"         <title>", "m", "y", " ", "s", "h", "o", "w",
                                   "</title>">>)

\* the step just taken was taken by goroutine p
Stepped(p) == pc'[p] # pc[p] \/ iter'[p] # iter[p] \/ out'.proc = p

\* C13: a pass whose read of the index object failed although the object is
\* there ends with an error and does not replace the stored document
C13_ReadErrorNotSwallowed ==
    [][\A p \in Procs :
          (pc[p] = "p_write" /\ readErr[p] = "read" /\ indexObj # <<>> /\ Stepped(p)) =>
              /\ indexObj' = indexObj
              /\ out'.status = 500]_vars

\* C14: a pass that found no index object writes its new items followed by
\* the trailer, and with no index object a pass fails only when one of its
\* store operations failed
C14_AbsentIndexStartsEmpty ==
    [][\A p \in Procs :
          /\ (pc[p] = "p_write" /\ readErr[p] = "absent" /\ pc'[p] = "p_lock") =>
                indexObj' = <<WriteItems(items[p]) \o Trailer>>
          /\ (req[p] = "process" /\ indexObj = <<>> /\ Stepped(p) /\ out'.status = 500) =>
                out'.why \in StoreFailures]_vars

\* the Close of the pass's writer has succeeded
Wrote(p) == pc[p] \in {"p_lock", "p_clear"}

C16_InvalidateOncePerWrite ==
    [][\A p \in Procs :
          (req[p] = "process" /\ ~InCall(p) /\ Stepped(p)) =>
              IF pc[p] = "p_clear"
              THEN /\ cachedContent' = <<>>
                   /\ cacheTime' = cacheTime
                   /\ pc'[p] = "idle"
                   /\ out'.status = 200
              ELSE /\ cachedContent' = cachedContent
                   /\ cacheTime' = cacheTime]_vars

C16_Witness ==
    /\ PassAnswered
    /\ out.status = 200
    /\ out.why = ""
    /\ cachedContent = <<>>
    /\ cacheTime > ZeroTime

\* C17: a promotion that fails ends the pass with an error; the failing step
\* writes no document and leaves every object where it is
C17_PromotionFailureAborts ==
    [][out'.why \in {"copy", "delete"} =>
          /\ out'.status = 500
          /\ \A p \in Procs : out'.proc = p => pc[p] \in {"p_copy", "p_delete"} /\ pc'[p] = "idle"
          /\ indexObj' = indexObj
          /\ objects' = objects]_vars

C17_Witness ==
    /\ out.why = "delete"
    /\ npasses = 1
    /\ ObjTalkPromoted \in objects
    /\ ObjTalk \notin objects
    /\ indexObj = <<>>

\* the audio objects the flat-root bucket starts with at its root
RootAudio == {o \in InitialObjects("flatroot") : ~InFolder(o.name) /\ isAudio(o.name)}

\* C18: an object is in the bucket at its root or under files/ at every
\* moment; a failed copy removes nothing and ends the promotion; an object
\* leaves the bucket only when its copy under files/ is there
C18_CopyThenDelete ==
    /\ [](config = "flatroot" =>
            \A o \in RootAudio : o \in objects \/ Promoted(o) \in objects)
    /\ [][/\ out'.why = "copy" =>
               /\ objects' = objects
               /\ \A p \in Procs : out'.proc = p => pc'[p] = "idle"
          /\ \A o \in objects \ objects' :
               Promoted(o) \in objects /\ Promoted(o) \in objects']_vars

C18_Witness ==
    /\ out.why = "copy"
    /\ ObjTalk \notin objects
    /\ ObjTalkPromoted \in objects
    /\ ObjEp \in objects
    /\ ObjEpPromoted \notin objects

\* no other goroutine is inside a pass
Alone(p) == \A q \in Procs \ {p} : req[q] # "process"

\* the listing of p's pass has still to return o
Listed(p, o) == \E i \in 1..Len(iter[p]) : iter[p][i] = o

\* C19 as stated: when a delete fails after its copy the object is at both
\* places, and a pass that runs alone never copies an object whose copy under
\* files/ its own listing returns
C19_RetryDoesNotRecopy ==
    [][\A p \in Procs :
          Alone(p) =>
              /\ (out'.proc = p /\ out'.why = "delete" /\ cur[p][1] \in objects) =>
                    {cur[p][1], Promoted(cur[p][1])} \subseteq objects'
              /\ (pc[p] = "p_copy" /\ pc'[p] = "p_delete") =>
                    ~Listed(p, Promoted(cur[p][1]))]_vars

\* C19 as the code has it: when a delete fails after its copy the object is
\* at both places; the next pass finds the source still at the root and takes
\* it for promotion again, whether or not its copy under files/ exists, and
\* passes over the copy
C19_RetryPromotesAgain ==
    [][\A p \in Procs :
          Alone(p) =>
              /\ (out'.proc = p /\ out'.why = "delete" /\ cur[p][1] \in objects) =>
                    {cur[p][1], Promoted(cur[p][1])} \subseteq objects'
              /\ (/\ config = "flatroot"
                  /\ pc[p] = "p_next"
                  /\ iter[p] # <<>>
                  /\ out'.why # "list"
                  /\ Stepped(p)) =>
                    IF ~InFolder(Head(iter[p]).name) /\ isAudio(Head(iter[p]).name)
                    THEN pc'[p] = "p_copy" /\ cur'[p] = <<Head(iter[p])>>
                    ELSE pc'[p] = "p_next" /\ cur'[p] = <<>>]_vars

C19_Witness ==
    \E p \in Procs :
        /\ Alone(p)
        /\ npasses = 2
        /\ pc[p] = "p_delete"
        /\ cur[p] = <<ObjTalk>>
        /\ iter[p] = <<ObjEp, ObjTalkPromoted, ObjShow>>

\* C20: promotion never takes an object that is under files/, never copies an
\* object onto itself, and never removes an object that is under files/
C20_PromotionSkipsPromoted ==
    /\ [](\A p \in Procs :
             pc[p] \in {"p_copy", "p_delete"} =>
                 /\ ~HasPrefix(cur[p][1].name, FilesPrefix)
                 /\ Promoted(cur[p][1]) # cur[p][1])
    /\ [][\A o \in objects \ objects' : ~HasPrefix(o.name, FilesPrefix)]_vars

C20_Witness ==
    \E p \in Procs :
        /\ config = "flatroot"
        /\ pc[p] = "p_next"
        /\ items[p] = <<>>
        /\ iter[p] = <<ObjShow>>
        /\ {ObjTalkPromoted, ObjEpPromoted, ObjShow} \subseteq objects
        /\ ObjTalk \notin objects
        /\ ObjEp \notin objects

\* number of places where piece occurs in doc
Occurrences(doc, piece) ==
    Cardinality({i \in 0..(Len(doc) - Len(piece)) :
                    SubSeq(doc, i + 1, i + Len(piece)) = piece})

\* C24: a merge adds as many item blocks as it was given items, whether or
\* not the document holds the same item already: the same item merged twice
\* is in the document twice
C24_AppendOnlyNoDedup ==
    mcount > 0 =>
        /\ ItemBlocks(mout) = ItemBlocks(mexisting) + Len(mitems)
        /\ Occurrences(mout, NewItem(mvariant))
              = Occurrences(mexisting, NewItem(mvariant)) + Len(mitems)

C24_Witness ==
    /\ mcount = 2
    /\ Len(mitems) = 1
    /\ Occurrences(mexisting, NewItem(mvariant)) = 1
    /\ Occurrences(mout, NewItem(mvariant)) = 2

\* C21: nothing keeps a pass from starting while another is in flight: an
\* idle goroutine can start one whatever the other goroutines are doing
C21_PassesNotExcluded ==
    \A p \in Procs :
        (pc[p] = "idle" /\ npasses < MaxPasses) =>
            IF config = "event"
            THEN \A name \in EventNames : ENABLED EventStart(p, name)
            ELSE ENABLED ProcessStart(p)

\* two passes in flight that merged into the same existing document; q wrote
\* its items, p wrote after it, and the stored document lacks q's items
C21_Witness ==
    \E p \in Procs : \E q \in Procs \ {p} :
        /\ pc[p] = "p_lock"
        /\ pc[q] \in {"p_lock", "p_clear"}
        /\ existing[p] = existing[q]
        /\ readErr[p] # "read"
        /\ readErr[q] # "read"
        /\ items[q] # <<>>
        /\ \A doc \in IndexDocs : ~Contains(doc, items[q][1])

\* C25: a feed read whose store read fails is answered 500 with the JSON
\* error body, and the failing step leaves cachedContent and cacheTime as they
\* were; no error of getIndexXML is answered 200
C25_FailedRefillAnswers500 ==
    /\ [](out.call /\ out.err /\ out.status # 0 =>
             out.status = 500 /\ out.body = ErrFeedBody)
    /\ [][\A p \in Procs :
             (req[p] = "feed" /\ out'.proc = p /\ out'.call /\ out'.err) =>
                 /\ pc[p] = "g_fetch"
                 /\ out'.status = 500
                 /\ cachedContent' = cachedContent
                 /\ cacheTime' = cacheTime]_vars

\* a failed refill while the cache holds a document that is too old to serve
C25_Witness ==
    /\ out.call
    /\ out.err
    /\ out.why = "read"
    /\ out.status = 500
    /\ indexObj # <<>>
    /\ cachedContent # <<>>
    /\ ~CacheHit

\* C26: a read that returned without error leaves the cache such that a read
\* made at once hits it, whatever the document, as long as no pass has run and
\* the content is younger than the TTL
C26_FreshAfterRead ==
    (out.call /\ ~out.err /\ npasses = 0 /\ now - cacheTime < cacheTTL) => CacheHit

\* C27: when no request is in flight, a cache that passes the freshness test
\* holds the document the store holds
C27_CacheCoherent ==
    ((\A p \in Procs : pc[p] = "idle") /\ CacheHit) =>
        (indexObj # <<>> /\ cachedContent = indexObj[1])

\* C28: a pass whose read of the index object did not fail merges into the
\* document the store holds when it writes, or into the empty document when
\* the store holds none
C28_MergeBaseIsStored ==
    [][\A p \in Procs :
          (pc[p] = "p_write" /\ pc'[p] = "p_lock" /\ readErr[p] # "read") =>
              existing[p] = IF indexObj = <<>> THEN <<>> ELSE indexObj[1]]_vars

\* the start of the enclosure of the item rendered for object o
Enclosure(o) ==
    <<"         <enclosure url=\"", BaseURL(config)>> \o o.name \o <<"\" length=\"">>

\* C29: once a flat-root pass has succeeded, the feed holds an item for every
\* audio object the bucket had at its root, whether this pass or an aborted
\* one before it moved the object under files/
C29_NoEpisodeLost ==
    (config = "flatroot" /\ PassAnswered /\ out.status = 200) =>
        \A o \in RootAudio :
            \E doc \in IndexDocs : Contains(doc, Enclosure(o))

\* C30: with no object ever added to the bucket, the feed document holds at
\* most one item for each object
C30_AtMostOneItemPerObject ==
    \A doc \in IndexDocs :
        \A i \in 1..Len(AllObjects) : Occurrences(doc, Enclosure(AllObjects[i])) <= 1

----------------------------------------------------------------------------
(* Properties of the title derivation *)

Separators == Digits \cup {"_"}

\* the final path segment of a name without its extension
Stem(name) == TrimSuffix(Base(name), Ext(name))

\* C22: the title is the stem with each underscore and digit turned into a
\* space and the white space at its end removed; what the stem begins with,
\* spaces included, is kept
C22_TrimsTrailingOnly ==
    tdone =>
        LET full == [i \in 1..Len(Stem(tname)) |->
                        IF Stem(tname)[i] \in Separators THEN " " ELSE Stem(tname)[i]]
        IN  /\ HasPrefix(full, ttitle)
            /\ \A i \in (Len(ttitle) + 1)..Len(full) : IsSpace(full[i])
            /\ ttitle # <<>> => ~IsSpace(ttitle[Len(ttitle)])
            /\ tname = NameIntro => HasPrefix(ttitle, <<" ", " ", " ">>)

\* the final path segment of an audio name without its four-character extension
AudioStem(name) == SubSeq(Base(name), 1, Len(Base(name)) - 4)

\* the title is a run of the audio stem in which each underscore and each
\* digit has become one space and every other character is as it was; what is
\* left out of the run at either end is white space or separators; the title
\* holds no underscore and no digit
ReplacedRun ==
    LET stem == AudioStem(tname)
    IN  /\ \E d \in 0..Len(stem) :
              /\ d + Len(ttitle) <= Len(stem)
              /\ \A k \in 1..Len(ttitle) :
                    ttitle[k] = IF stem[d + k] \in Separators THEN " "
                                ELSE stem[d + k]
              /\ \A k \in (1..d) \cup ((d + Len(ttitle) + 1)..Len(stem)) :
                    stem[k] \in Separators \/ IsSpace(stem[k])
        /\ \A k \in 1..Len(ttitle) : ttitle[k] \notin Separators

----------------------------------------------------------------------------
(* Properties of the selection and of the rendered items *)

\* the last four characters of the name, lowercased, are .mp3 or .m4a
AudioName(name) ==
    /\ Len(name) >= 4
    /\ ToLower(SubSeq(name, Len(name) - 3, Len(name))) \in {ExtMp3, ExtM4a}

\* the listing loop of pass p has just taken the next object off its iterator
ListedOne(p) ==
    /\ pc[p] = "p_next"
    /\ iter[p] # <<>>
    /\ iter'[p] = Tail(iter[p])
    /\ req'[p] = "process"

\* C31: a listed object becomes an episode exactly when its lowercased name
\* ends in .mp3 or .m4a and, in the flat-root variant, holds no "/": main.go
\* renders its item, the flat-root variant starts its promotion, the event
\* variant renders the object its event names; an object passed over changes
\* neither the bucket, nor the items of the pass, nor the index, nor the cache
C31_SelectionRule ==
    [][\A p \in Procs :
          /\ ListedOne(p) =>
                LET o == Head(iter[p])
                    selected == /\ AudioName(o.name)
                                /\ config = "flatroot" =>
                                      \A i \in 1..Len(o.name) : ~HasSlash(o.name[i])
                IN  /\ config = "prefix" =>
                          /\ selected => Len(items'[p]) = Len(items[p]) + 1
                          /\ ~selected => items'[p] = items[p]
                    /\ config = "flatroot" =>
                          /\ selected => pc'[p] = "p_copy" /\ cur'[p] = <<o>>
                          /\ ~selected => pc'[p] = "p_next" /\ cur'[p] = cur[p]
                    /\ ~selected =>
                          /\ items'[p] = items[p]
                          /\ UNCHANGED <<objects, indexObj, cachedContent, cacheTime>>
          /\ (pc[p] = "p_attrs" /\ pc'[p] # "p_attrs" /\ out'.why # "attrs") =>
                /\ AudioName(cur[p][1]) =>
                      pc'[p] = "g_rlock" /\ Len(items'[p]) = 1
                /\ ~AudioName(cur[p][1]) =>
                      /\ out'.why = "skip"
                      /\ UNCHANGED <<objects, indexObj, cachedContent, cacheTime>>]_vars

\* a flat-root pass has listed the whole bucket: it promoted and rendered
\* T.M4A and ep_2.mp3 and passed over files/my_show_01.mp3
C31_Witness ==
    /\ config = "flatroot"
    /\ \E p \in Procs :
          /\ pc[p] = "p_next"
          /\ iter[p] = <<>>
          /\ Len(items[p]) = 2
    /\ objects = {ObjTalkPromoted, ObjEpPromoted, ObjShow}

\* the offsets at which piece lies in doc
Starts(doc, piece) ==
    {i \in 0..(Len(doc) - Len(piece)) : SubSeq(doc, i + 1, i + Len(piece)) = piece}

RECURSIVE InOrderFrom(_, _, _)
\* the items lie in doc one after the other, in their order, none before from
InOrderFrom(doc, its, from) ==
    IF its = <<>> THEN TRUE
    ELSE \E i \in Starts(doc, Head(its)) :
            /\ i >= from
            /\ InOrderFrom(doc, Tail(its), i + Len(Head(its)))

\* C32: the items of a pass are in the order in which the listing returned
\* their objects, and the document a pass writes holds the items of the
\* document it read, as many and in the same place, followed by the items of
\* the pass in their order
C32_ListingOrder ==
    [][\A p \in Procs :
          /\ (ListedOne(p) /\ config = "prefix") =>
                SubSeq(items'[p], 1, Len(items[p])) = items[p]
          /\ (pc[p] = "p_delete" /\ pc'[p] = "p_next") =>
                /\ Len(items'[p]) = Len(items[p]) + 1
                /\ SubSeq(items'[p], 1, Len(items[p])) = items[p]
                /\ Contains(items'[p][Len(items'[p])], Enclosure(cur[p][1]))
          /\ (pc[p] = "p_write" /\ pc'[p] = "p_lock") =>
                LET doc == indexObj'[1]
                IN  /\ ItemBlocks(doc) = ItemBlocks(existing[p]) + Len(items[p])
                    /\ \E k \in 0..Len(doc) :
                          /\ ItemBlocks(SubSeq(doc, 1, k)) = ItemBlocks(existing[p])
                          /\ HasPrefix(existing[p], SubSeq(doc, 1, k))
                          /\ InOrderFrom(doc, items[p], k)]_vars

\* a flat-root pass has written a document that holds the item the feed had,
\* then the item of T.M4A, then the item of ep_2.mp3
C32_Witness ==
    /\ config = "flatroot"
    /\ \E p \in Procs :
          /\ pc[p] = "p_lock"
          /\ Len(items[p]) = 2
          /\ Contains(items[p][1], Enclosure(ObjTalk))
          /\ Contains(items[p][2], Enclosure(ObjEp))
          /\ existing[p] = FeedDoc(config)
          /\ indexObj = <<Merge(config, existing[p], items[p])>>

\* text that is markup when it stands unescaped in character data or in an
\* attribute value; the markup of the item template is held in pieces of its
\* own, so that such a piece inside an item comes from the object's name
XmlSpecial == {"&", "<", ">", "\"", Rss, Channel, "rss>", "channel>"}

\* the pieces of an item between the piece before and the piece after
Between(it, before, after) ==
    LET b == CHOOSE i \in 1..Len(it) : it[i] = before
        a == CHOOSE i \in (b + 1)..Len(it) :
                 it[i] = after /\ \A j \in (b + 1)..(i - 1) : it[j] # after
    IN  SubSeq(it, b + 1, a - 1)

\* C33: no item a pass has rendered holds unescaped markup in its title text
\* or in the value of its url attribute
C33_ItemsEscaped ==
    \A p \in Procs : \A i \in 1..Len(items[p]) :
        LET it == items[p][i]
            title == Between(it, "         <title>", "</title>")
            url == Between(it, BaseURL(config), "\" length=\"")
        IN  /\ \A k \in 1..Len(title) : title[k] \notin XmlSpecial
            /\ \A k \in 1..Len(url) : url[k] \notin XmlSpecial

\* the enclosure line of object o and the end of its item: the public base
\* URL and the path, the size the store reports, the fixed type
EnclosureLine(o) ==
    Enclosure(o) \o <<ToString(o.size), "\" type=\"audio/mpeg\" />", NL, "     </item>">>

\* C34: every item a pass holds ends with the enclosure of one object of the
\* bucket: its url is the public base URL followed by the path the object was
\* listed with, its length is the size the store reports for that object, and
\* its type is audio/mpeg, for an m4a object too
C34_EnclosureFields ==
    \A p \in Procs : \A i \in 1..Len(items[p]) :
        \E k \in 1..Len(AllObjects) :
            /\ AudioName(AllObjects[k].name)
            /\ HasSuffix(items[p][i], EnclosureLine(AllObjects[k]))
            /\ Occurrences(items[p][i], <<"         <enclosure url=\"">>) = 1

\* a flat-root pass holds the items of T.M4A (5 bytes) and ep_2.mp3 (2048
\* bytes), both of type audio/mpeg
C34_Witness ==
    /\ config = "flatroot"
    /\ \E p \in Procs :
          /\ Len(items[p]) = 2
          /\ HasSuffix(items[p][1],
                       <<BaseURL(config), "T", ".", "M", "4", "A", "\" length=\"", "5",
                         "\" type=\"audio/mpeg\" />", NL, "     </item>">>)
          /\ HasSuffix(items[p][2],
                       <<BaseURL(config), "e", "p", "_", "2", ".", "m", "p", "3",
                         "\" length=\"", "2048", "\" type=\"audio/mpeg\" />", NL,
                         "     </item>">>)

----------------------------------------------------------------------------
(* Properties of the write, of the lock and of the handlers *)

\* pass p is answered 200 by the step
Succeeds(p) == out'.proc = p /\ out'.status = 200 /\ req[p] = "process"

\* the step is the write of pass p: the index object is replaced by one whole
\* document that ends with the closing tags
WritesWhole(p) ==
    /\ pc[p] = "p_write"
    /\ pc'[p] = "p_lock"
    /\ Len(indexObj') = 1
    /\ HasSuffix(indexObj'[1], Trailer)

\* the index object is replaced by the write of a pass and by nothing else, a
\* pass is past its write only through its own write, and the index object,
\* once there, stays there
WriteDiscipline ==
    /\ indexObj' # indexObj => \E p \in Procs : WritesWhole(p)
    /\ \A p \in Procs : (pc'[p] = "p_lock" /\ pc[p] # "p_lock") => WritesWhole(p)
    /\ \A p \in Procs : (pc'[p] = "p_clear" /\ pc[p] # "p_clear") => pc[p] = "p_lock"
    /\ indexObj # <<>> => indexObj' # <<>>

\* C35 as stated: every pass that is answered 200 has made its one write
C35_EverySuccessWrites ==
    [][/\ WriteDiscipline
       /\ \A p \in Procs : Succeeds(p) => pc[p] = "p_clear"]_vars

\* C35 as the code has it: a pass of processFiles that is answered 200 has
\* made its one write, with or without new items; a pass of processFile has
\* made it when its object is audio and has written nothing when it is not
C35_SuccessWritesUnlessSkipped ==
    [][/\ WriteDiscipline
       /\ \A p \in Procs :
             Succeeds(p) =>
                 \/ pc[p] = "p_clear"
                 \/ /\ config = "event"
                    /\ pc[p] = "p_attrs"
                    /\ ~AudioName(cur[p][1])
                    /\ indexObj' = indexObj]_vars

\* a flat-root pass that found nothing new at the root has written the whole
\* document again
C35_Witness ==
    /\ config = "flatroot"
    /\ npasses = 2
    /\ passDone
    /\ \E p \in Procs :
          /\ pc[p] = "p_lock"
          /\ items[p] = <<>>
          /\ existing[p] # <<>>
          /\ indexObj = <<Merge(config, existing[p], <<>>)>>

\* the pass and the call positions at which the code holds cacheMutex
LockDiscipline ==
    /\ \A p \in Procs :
          /\ p \in rheld => pc[p] = "g_check"
          /\ p \in wheld => pc[p] \in {"g_store", "p_clear"}
    /\ wheld # {} => rheld = {} /\ Cardinality(wheld) = 1

\* some request in flight can take a step
NoDeadlock ==
    (\E p \in Procs : pc[p] # "idle") => \E p \in Procs : ENABLED Continue(p)

\* C36: cacheMutex is held only between a lock call and the use of the cache
\* that follows it, so never by a goroutine that has returned or that is at a
\* store operation; a writer excludes everyone else; the requests in flight
\* are never all blocked; every request returns
C36_LockReleasedAndLive ==
    /\ [](LockDiscipline /\ NoDeadlock)
    /\ \A p \in Procs : (pc[p] # "idle") ~> (pc[p] = "idle")

\* a pass waits for the lock of its invalidation while a feed read holds the
\* write lock for its refill
C36_Witness ==
    \E p, q \in Procs :
        /\ pc[p] = "p_lock"
        /\ pc[q] = "g_store"
        /\ wheld = {q}

\* what a request can change besides its own answer and position
Effects == <<objects, indexObj, cachedContent, cacheTime, rheld, wheld>>

\* C37: in the event variant an event for an object that is not audio is
\* answered 200 and changes neither the index, nor the cache, nor the bucket;
\* a body that is no JSON event is answered 400, changes nothing and starts no
\* pass; a pass for an audio object holds one item, and its write adds that
\* one item block to the document it read
C37_EventFrame ==
    [][config = "event" =>
          /\ \A p \in Procs :
                (pc[p] = "p_attrs" /\ pc'[p] = "idle" /\ out'.why # "attrs") =>
                    /\ ~AudioName(cur[p][1])
                    /\ out'.proc = p
                    /\ out'.status = 200
                    /\ out'.body = OkProcessBody
                    /\ UNCHANGED Effects
          /\ \A p \in Procs :
                (pc[p] = "p_attrs" /\ pc'[p] = "g_rlock") =>
                    AudioName(cur[p][1]) /\ Len(items'[p]) = 1
          /\ out'.status = 400 =>
                /\ out'.body = ErrParseBody
                /\ UNCHANGED <<Effects, pc, req, npasses, passvars>>
                /\ pc[out'.proc] = "idle"
          /\ \A p \in Procs :
                (pc[p] = "p_write" /\ pc'[p] = "p_lock") =>
                    /\ Len(items[p]) = 1
                    /\ ItemBlocks(indexObj'[1]) = ItemBlocks(existing[p]) + 1
                    /\ HasSuffix(indexObj'[1], items[p][1] \o <<NL>> \o Trailer)]_vars

\* an event for readme.txt has been answered 200 with a document in the
\* store and in a fresh cache
C37_Witness ==
    /\ config = "event"
    /\ out.why = "skip"
    /\ out.status = 200
    /\ indexObj # <<>>
    /\ cachedContent # <<>>
    /\ Fresh

\* C38: the health endpoint can answer in every state, its answer is 200
\* with {"status":"ok"}, and answering changes neither the store, nor the
\* cache, nor the lock, nor any request in flight
C38_HealthAlwaysOk ==
    /\ [](ENABLED healthHandler)
    /\ [][out'.why = "health" =>
             /\ out'.status = 200
             /\ out'.body = HealthBody
             /\ UNCHANGED <<Effects, pc, req, npasses, passvars, content>>]_vars

\* the health endpoint has answered while the index object is absent, the
\* cache is empty, one pass is at its write and another request is waiting
\* for the lock
C38_Witness ==
    /\ out.why = "health"
    /\ out.status = 200
    /\ indexObj = <<>>
    /\ cachedContent = <<>>
    /\ \E p, q \in Procs : pc[p] = "p_write" /\ pc[q] = "g_rlock"

\* C39: a process started without a bucket name never opens its listener:
\* the one step it takes is its exit, no handler runs and nothing is answered
C39_NoServiceWithoutConfig ==
    /\ [](Missing =>
            /\ phase # "serving"
            /\ out = NoOut
            /\ \A p \in Procs : pc[p] = "idle" /\ req[p] = "none")
    /\ [][Missing => phase = "init" /\ phase' = "exited" /\ UNCHANGED sysvars]_vars

\* the event variant, started with GCS_BUCKET set and GCS_FILES_BUCKET unset,
\* has exited
C39_Witness ==
    /\ config = "event"
    /\ bucketName # ""
    /\ filesBucketName = ""
    /\ phase = "exited"

====
